---- MODULE Spec2Model ----
(***************************************************************************)
(* A model of scripts/fix-concept-maps.py: the driver main() walks the     *)
(* chapter directories chapter-01 .. chapter-06 and calls fix_concept_map  *)
(* on each one that exists.  fix_concept_map loads concept-map.yml, makes  *)
(* every exam-question reference point at questions/<basename>, writes a   *)
(* stub question file for every reference whose target is missing, and    *)
(* dumps the document back when a reference was rewritten.                 *)
(*                                                                         *)
(* A path string is a sequence of tokens: the separator "/" and name       *)
(* fragments.  The tokens form a prefix code, so two strings are equal     *)
(* exactly when their token sequences are.                                 *)
(***************************************************************************)
EXTENDS Integers, Sequences, FiniteSets, TLC

\* ------------------------------------------------------------------ bounds
\* Largest number of exam-question references in the whole content tree.
MaxRefs == 2
\* Number of times the tool is run in succession on the same tree.
MaxRuns == 2

\* --------------------------------------------------------- program constants
\* range(1, 7): the driver visits chapter-01 .. chapter-06.
FirstChapter == 1
LastChapter == 6
Chapters == FirstChapter..LastChapter

SEP == "/"
QUESTIONS == "questions"

STUB_TEMPLATE == "id: 1 / question: TODO / ... / learning_objectives: []"

\* Content of a question file that somebody wrote by hand.
AuthoredQuestion == "authored question"
\* Content left by a write that failed after the file was opened.
Truncated == "truncated"

\* ----------------------------------------------------------- path functions
\* os.path.basename: everything after the last separator (p[rfind('/')+1:]).
LastSep(p) ==
  LET S == {i \in 1..Len(p) : p[i] = SEP}
  IN  IF S = {} THEN 0 ELSE CHOOSE i \in S : \A j \in S : j <= i

\* A basename that keeps the directories.
basenameWhole(p) == p

basename(p) == SubSeq(p, LastSep(p) + 1, Len(p))

\* f"questions/{just_filename}"
expected_path(just_filename) == <<QUESTIONS, SEP>> \o just_filename

\* A comparison that always asks for a rewrite.
NeedsFixAlways(question_file) == TRUE

\* question_file != expected_path
NeedsFix(question_file) == question_file # expected_path(basename(question_file))

\* ------------------------------------------------------- document functions
RECURSIVE Flatten(_)
Flatten(ss) == IF Len(ss) = 0 THEN <<>> ELSE Head(ss) \o Flatten(Tail(ss))

\* The visiting order of the three nested for loops: category, concept, index.
Positions(listing) ==
  Flatten([ci \in 1..Len(listing) |->
    Flatten([ki \in 1..Len(listing[ci]) |->
      [i \in 1..Len(listing[ci][ki]) |-> <<ci, ki, i>>]])])

RefAt(listing, pos) == listing[pos[1]][pos[2]][pos[3]]

\* exam_questions[i] = expected_path
SetRef(listing, pos, ref) == [listing EXCEPT ![pos[1]][pos[2]][pos[3]] = ref]

\* ------------------------------------------------------------ file contents
NoFile == [kind |-> "absent", text |-> "", listing |-> <<>>]
TruncatedMap == [kind |-> "truncated", text |-> "", listing |-> <<>>]
\* A readable concept map: its listing of categories, and whether its text is
\* the author's or the output of yaml.dump.
Authored(listing) == [kind |-> "yaml", text |-> "authored", listing |-> listing]
Dumped(listing) == [kind |-> "yaml", text |-> "dumped", listing |-> listing]

NoFiles == [n \in {} |-> ""]

\* -------------------------------------------------------------- input trees
\* Reference strings a concept map may hold: a bare file name, the canonical
\* form, a reference to a second file with directories in front of a
\* questions/ segment, and a reference that ends in a separator.
Refs ==
  { <<"q1">>,
    <<QUESTIONS, SEP, "q1">>,
    <<"old", SEP, QUESTIONS, SEP, "q2">>,
    <<"old", SEP>> }

\* Where a reference sits relative to the one before it: in the same concept,
\* in a new concept of the same category, or in a new category.
Breaks == {"same", "concept", "category"}

AddRef(listing, ref, brk) ==
  IF brk = "category" \/ Len(listing) = 0
    THEN Append(listing, << <<ref>> >>)
    ELSE LET ci == Len(listing)
         IN  IF brk = "concept"
               THEN [listing EXCEPT ![ci] = Append(@, <<ref>>)]
               ELSE [listing EXCEPT ![ci][Len(listing[ci])] = Append(@, ref)]

RECURSIVE BuildListing(_, _, _)
BuildListing(refs, brks, n) ==
  IF n = 0 THEN <<>>
  ELSE AddRef(BuildListing(refs, brks, n - 1), refs[n],
              IF n = 1 THEN "category" ELSE brks[n])

\* Listings without references: no category, a category without concepts, a
\* concept without exam questions (the .get(..., []) defaults).
EmptyListings == { <<>>, << <<>> >>, << << <<>> >> >> }

ListingsWith(n) ==
  IF n = 0 THEN EmptyListings
  ELSE { BuildListing(refs, brks, n) :
           refs \in [1..n -> Refs], brks \in [2..n -> Breaks] }

\* The questions directory of a chapter before the first run.
QuestionDirs ==
  { [qdir |-> FALSE, files |-> NoFiles],
    [qdir |-> TRUE, files |-> NoFiles],
    [qdir |-> TRUE, files |-> (<<"q2">> :> AuthoredQuestion)] }

AbsentChapter == [dir |-> FALSE, map |-> NoFile, qdir |-> FALSE, files |-> NoFiles]

\* The chapter directories holding n references in all.
ChapterStates ==
  [n \in 0..MaxRefs |->
     { [dir |-> TRUE, map |-> Authored(l), qdir |-> q.qdir, files |-> q.files] :
         l \in ListingsWith(n), q \in QuestionDirs }
     \cup (IF n = 0
             THEN {AbsentChapter}
                  \cup { [dir |-> TRUE, map |-> NoFile, qdir |-> q.qdir,
                          files |-> q.files] : q \in QuestionDirs }
             ELSE {})]

\* The chapter directories that may exist in the trees examined.
CandidateDirs == <<2, 6>>

\* -------------------------------------------------------------------- state
VARIABLES
  disk,          \* storage: per chapter, the directory, concept-map.yml,
                 \* the questions directory and the files in it
  before,        \* storage as it was when the current run started
  run,           \* number of the current run
  prev,          \* how the previous run ended ("none" for the first)
  status,        \* "running", "done", "type_error", "io_error", "parse_error"
  pc,            \* "main": at the driver's loop; "refs": in the reference
                 \* loop; "returned": fix_concept_map has returned its pair
  chapter_num,
  data,          \* the loaded document's listing
  idx,           \* next position of Positions(data) to process
  updated,
  fixed_count,
  missing_count,
  total_fixed,
  total_stubs

vars == <<disk, before, run, prev, status, pc, chapter_num, data, idx, updated,
          fixed_count, missing_count, total_fixed, total_stubs>>

locals == <<data, idx, updated, fixed_count, missing_count>>
totals == <<total_fixed, total_stubs>>
history == <<before, run, prev>>

StartOfMain ==
  /\ status = "running"
  /\ pc = "main"
  /\ chapter_num = FirstChapter
  /\ data = <<>>
  /\ idx = 1
  /\ updated = FALSE
  /\ fixed_count = 0
  /\ missing_count = 0
  /\ total_fixed = 0
  /\ total_stubs = 0

Init ==
  /\ \E a \in 0..MaxRefs : \E b \in 0..(MaxRefs - a) :
       \E s \in ChapterStates[a] : \E t \in ChapterStates[b] :
         disk = [c \in Chapters |->
                   IF c = CandidateDirs[1] THEN s
                   ELSE IF c = CandidateDirs[2] THEN t
                   ELSE AbsentChapter]
  /\ before = disk
  /\ run = 1
  /\ prev = "none"
  /\ StartOfMain

\* ---------------------------------------------------------------- storage
\* An existence test that never finds the file.
existsNever(c, just_filename) == FALSE

\* An existence test against the directory listing taken when the run started.
existsStale(c, just_filename) ==
  IF Len(just_filename) = 0 THEN disk[c].qdir
  ELSE just_filename \in DOMAIN before[c].files

\* An existence test that always finds the file.
existsAlways(c, just_filename) == TRUE

\* full_path.exists(): chapter_dir / 'questions' / '' is the questions
\* directory itself.
exists(c, just_filename) ==
  IF Len(just_filename) = 0 THEN disk[c].qdir
  ELSE just_filename \in DOMAIN disk[c].files

\* open(full_path, 'w') and f.write(content)
WriteFile(files, just_filename, content) ==
  [n \in DOMAIN files \cup {just_filename} |->
     IF n = just_filename THEN content ELSE files[n]]

\* ------------------------------------------------------------------ actions
Running == status = "running"

\* main: chapter_dir does not exist, the loop goes on to the next number.
SkipChapter ==
  /\ Running /\ pc = "main"
  /\ chapter_num <= LastChapter
  /\ ~disk[chapter_num].dir
  /\ chapter_num' = chapter_num + 1
  /\ UNCHANGED <<disk, history, status, pc, locals, totals>>

\* fix_concept_map finds no concept-map.yml, prints and returns None; main's
\* "fixed, stubs = fix_concept_map(chapter_dir)" cannot unpack None and the
\* TypeError ends the process.
NoConceptMap ==
  /\ Running /\ pc = "main"
  /\ chapter_num <= LastChapter
  /\ disk[chapter_num].dir
  /\ disk[chapter_num].map.kind = "absent"
  /\ status' = "type_error"
  /\ UNCHANGED <<disk, history, pc, chapter_num, locals, totals>>

\* yaml.safe_load of a file a failed dump left behind: the error is not
\* handled and ends the process.
LoadFails ==
  /\ Running /\ pc = "main"
  /\ chapter_num <= LastChapter
  /\ disk[chapter_num].dir
  /\ disk[chapter_num].map.kind = "truncated"
  /\ status' = "parse_error"
  /\ UNCHANGED <<disk, history, pc, chapter_num, locals, totals>>

\* fix_concept_map up to the loop: load the document, make the questions
\* directory, clear the flag and the two counters.
LoadConceptMap ==
  /\ Running /\ pc = "main"
  /\ chapter_num <= LastChapter
  /\ disk[chapter_num].dir
  /\ disk[chapter_num].map.kind = "yaml"
  /\ data' = disk[chapter_num].map.listing
  /\ disk' = [disk EXCEPT ![chapter_num].qdir = TRUE]
  /\ idx' = 1
  /\ updated' = FALSE
  /\ fixed_count' = 0
  /\ missing_count' = 0
  /\ pc' = "refs"
  /\ UNCHANGED <<history, status, chapter_num, totals>>

InLoop == Running /\ pc = "refs" /\ idx <= Len(Positions(data))

\* The path rewrite of one loop iteration.
FixPath(pos) ==
  LET question_file == RefAt(data, pos)
  IN  IF NeedsFix(question_file)
        THEN /\ data' = SetRef(data, pos, expected_path(basename(question_file)))
             /\ updated' = TRUE
             /\ fixed_count' = fixed_count + 1
        ELSE UNCHANGED <<data, updated, fixed_count>>

\* A loop iteration that looks for the target only when it rewrote the
\* reference.
ProcessQuestionCoupled ==
  /\ InLoop
  /\ LET pos == Positions(data)[idx]
         question_file == RefAt(data, pos)
         just_filename == basename(question_file)
     IN  /\ FixPath(pos)
         /\ IF NeedsFix(question_file) /\ ~exists(chapter_num, just_filename)
              THEN /\ disk' = [disk EXCEPT ![chapter_num].files =
                                 WriteFile(@, just_filename, STUB_TEMPLATE)]
                   /\ missing_count' = missing_count + 1
              ELSE UNCHANGED <<disk, missing_count>>
  /\ idx' = idx + 1
  /\ UNCHANGED <<history, status, pc, chapter_num, totals>>

\* One iteration of the loop over the exam questions: rewrite the reference
\* when it differs from questions/<basename>, then write the stub when the
\* target does not exist.
ProcessQuestion ==
  /\ InLoop
  /\ LET pos == Positions(data)[idx]
         just_filename == basename(RefAt(data, pos))
     IN  /\ FixPath(pos)
         /\ IF ~exists(chapter_num, just_filename)
              THEN /\ disk' = [disk EXCEPT ![chapter_num].files =
                                 WriteFile(@, just_filename, STUB_TEMPLATE)]
                   /\ missing_count' = missing_count + 1
              ELSE UNCHANGED <<disk, missing_count>>
  /\ idx' = idx + 1
  /\ UNCHANGED <<history, status, pc, chapter_num, totals>>

\* The same iteration when the stub write raises: the open fails and leaves
\* nothing, or the write fails and leaves a file without the template.  The
\* error is not handled and ends the process.
StubWriteFails ==
  /\ InLoop
  /\ LET pos == Positions(data)[idx]
         just_filename == basename(RefAt(data, pos))
     IN  /\ ~exists(chapter_num, just_filename)
         /\ FixPath(pos)
         /\ \/ UNCHANGED disk
            \/ disk' = [disk EXCEPT ![chapter_num].files =
                          WriteFile(@, just_filename, Truncated)]
  /\ status' = "io_error"
  /\ UNCHANGED <<history, pc, chapter_num, idx, missing_count, totals>>

AtEnd == Running /\ pc = "refs" /\ idx > Len(Positions(data))

\* An end of loop that dumps the document whether or not it changed.
WriteBackAlways ==
  /\ AtEnd
  /\ disk' = [disk EXCEPT ![chapter_num].map = Dumped(data)]
  /\ pc' = "returned"
  /\ UNCHANGED <<history, status, chapter_num, locals, totals>>

\* After the loop: dump the document when a reference was rewritten, then
\* return (fixed_count, missing_count).
WriteBack ==
  /\ AtEnd
  /\ IF updated
       THEN disk' = [disk EXCEPT ![chapter_num].map = Dumped(data)]
       ELSE UNCHANGED disk
  /\ pc' = "returned"
  /\ UNCHANGED <<history, status, chapter_num, locals, totals>>

\* The dump raises: the open fails and leaves the file as it was, or the dump
\* fails after the open has emptied it.
DumpFails ==
  /\ AtEnd
  /\ updated
  /\ \/ UNCHANGED disk
     \/ disk' = [disk EXCEPT ![chapter_num].map = TruncatedMap]
  /\ status' = "io_error"
  /\ UNCHANGED <<history, pc, chapter_num, locals, totals>>

\* A driver step that keeps the last pair instead of adding it.
AccumulateLast ==
  /\ Running /\ pc = "returned"
  /\ total_fixed' = fixed_count
  /\ total_stubs' = missing_count
  /\ chapter_num' = chapter_num + 1
  /\ pc' = "main"
  /\ UNCHANGED <<disk, history, status, locals>>

\* main: unpack the returned pair, add it to the totals, next chapter.
Accumulate ==
  /\ Running /\ pc = "returned"
  /\ total_fixed' = total_fixed + fixed_count
  /\ total_stubs' = total_stubs + missing_count
  /\ chapter_num' = chapter_num + 1
  /\ pc' = "main"
  /\ UNCHANGED <<disk, history, status, locals>>

\* main: the loop is over, the summary is printed.
Summary ==
  /\ Running /\ pc = "main"
  /\ chapter_num > LastChapter
  /\ status' = "done"
  /\ UNCHANGED <<disk, history, pc, chapter_num, locals, totals>>

\* The tool is started again on the tree the previous run left.
RunAgain ==
  /\ ~Running
  /\ run < MaxRuns
  /\ run' = run + 1
  /\ prev' = status
  /\ before' = disk
  /\ UNCHANGED disk
  /\ status' = "running"
  /\ pc' = "main"
  /\ chapter_num' = FirstChapter
  /\ data' = <<>>
  /\ idx' = 1
  /\ updated' = FALSE
  /\ fixed_count' = 0
  /\ missing_count' = 0
  /\ total_fixed' = 0
  /\ total_stubs' = 0

Next ==
  \/ SkipChapter
  \/ NoConceptMap
  \/ LoadFails
  \/ LoadConceptMap
  \/ ProcessQuestion
  \/ StubWriteFails
  \/ WriteBack
  \/ DumpFails
  \/ Accumulate
  \/ Summary
  \/ RunAgain

Spec == Init /\ [][Next]_vars

\* ============================================================ properties
\* The last path segment of a reference, read off from its end.
RECURSIVE LastSegment(_)
LastSegment(p) ==
  IF Len(p) = 0 \/ p[Len(p)] = SEP THEN <<>>
  ELSE Append(LastSegment(SubSeq(p, 1, Len(p) - 1)), p[Len(p)])

NoSeparator(s) == \A i \in 1..Len(s) : s[i] # SEP

IsCanonical(ref) == ref = <<QUESTIONS, SEP>> \o LastSegment(ref)

\* The references of a listing, in document order.
RefsOf(listing) == Flatten([ci \in 1..Len(listing) |-> Flatten(listing[ci])])

\* The listing the chapter's concept map held when the run started.
OrigRefs(c) == RefsOf(before[c].map.listing)

ExistedBefore(c, name) ==
  IF Len(name) = 0 THEN before[c].qdir ELSE name \in DOMAIN before[c].files

TargetExists(c, name) ==
  IF Len(name) = 0 THEN disk[c].qdir ELSE name \in DOMAIN disk[c].files

Returned == status = "running" /\ pc = "returned"

RECURSIVE SumOver(_, _)
SumOver(f, S) ==
  IF S = {} THEN 0
  ELSE LET x == CHOOSE y \in S : TRUE IN f[x] + SumOver(f, S \ {x})

\* References of the chapter that were not canonical when the run started.
NonCanonical(c) ==
  LET o == OrigRefs(c) IN Cardinality({k \in 1..Len(o) : ~IsCanonical(o[k])})

\* Question files of the chapter that the run has created.
NewFiles(c) == DOMAIN disk[c].files \ DOMAIN before[c].files

\* ---------------------------------------------------------------------- C1
\* C1: when fix_concept_map has returned for a chapter, the concept map on
\* storage has the shape it had, and each of its references is questions/
\* followed by the last path segment of the original reference, which holds
\* no separator.
C1_ReferencesCanonical ==
  Returned =>
    LET m == disk[chapter_num].map
        o == OrigRefs(chapter_num)
        n == RefsOf(m.listing)
    IN  /\ m.kind = "yaml"
        /\ Positions(m.listing) = Positions(before[chapter_num].map.listing)
        /\ \A k \in 1..Len(o) :
             /\ n[k] = <<QUESTIONS, SEP>> \o LastSegment(o[k])
             /\ NoSeparator(SubSeq(n[k], 3, Len(n[k])))

\* A chapter has been processed whose map held a reference with directories
\* in front of a questions/ segment, and that reference is now canonical.
C1_Witness ==
  /\ Returned
  /\ \E k \in 1..Len(OrigRefs(chapter_num)) :
       /\ OrigRefs(chapter_num)[k] = <<"old", SEP, QUESTIONS, SEP, "q2">>
       /\ RefsOf(disk[chapter_num].map.listing)[k] = <<QUESTIONS, SEP, "q2">>

\* ---------------------------------------------------------------------- C2
\* C2: when fix_concept_map has returned for a chapter, every reference whose
\* target questions/<basename> did not exist before the run has a file of
\* that name holding the stub template, and every reference has an existing
\* target.
C2_MissingTargetsGetStub ==
  Returned =>
    LET o == OrigRefs(chapter_num)
    IN
    \A k \in 1..Len(o) :
      LET name == LastSegment(o[k])
      IN  /\ ~ExistedBefore(chapter_num, name) =>
               /\ name \in DOMAIN disk[chapter_num].files
               /\ disk[chapter_num].files[name] = STUB_TEMPLATE
          /\ TargetExists(chapter_num, name)

\* ---------------------------------------------------------------------- C3
\* C3: when the driver reaches a chapter directory without a concept map, its
\* next step goes on to the next chapter with the run still alive, the totals
\* as they were and nothing written.
C3_MissingMapIsSkipped ==
  [][ ( /\ status = "running" /\ pc = "main"
        /\ chapter_num <= LastChapter
        /\ disk[chapter_num].dir
        /\ disk[chapter_num].map.kind = "absent" )
      => ( /\ status' = "running"
           /\ chapter_num' = chapter_num + 1
           /\ disk' = disk
           /\ total_fixed' = total_fixed
           /\ total_stubs' = total_stubs ) ]_vars

\* ---------------------------------------------------------------------- C4
\* C4: when fix_concept_map has returned, the concept map on storage is the
\* dump of the rewritten document if a reference was rewritten, and is the
\* file the run found, text included, if none was.
C4_DumpOnlyWhenRewritten ==
  Returned =>
    IF fixed_count > 0
      THEN /\ disk[chapter_num].map = Dumped(data)
           /\ disk[chapter_num].map # before[chapter_num].map
      ELSE disk[chapter_num].map = before[chapter_num].map

\* A pass that created a stub and rewrote nothing, on a map the author wrote.
C4_Witness ==
  /\ Returned
  /\ fixed_count = 0
  /\ missing_count > 0
  /\ disk[chapter_num].map.text = "authored"

\* ---------------------------------------------------------------------- C5
\* C5: in a run that follows a run that ended without an I/O error, no step
\* changes storage and every counter stays at zero.
C5_SecondRunIdle ==
  [][ (run' >= 2 /\ prev' # "io_error")
      => ( /\ disk' = disk
           /\ fixed_count' = 0 /\ missing_count' = 0
           /\ total_fixed' = 0 /\ total_stubs' = 0 ) ]_vars

\* The second run has reached its summary after a first run that rewrote a
\* map and created a stub.
C5_Witness ==
  /\ run = 2 /\ prev = "done" /\ status = "done"
  /\ \E c \in Chapters :
       /\ disk[c].map.text = "dumped"
       /\ \E n \in DOMAIN disk[c].files : disk[c].files[n] = STUB_TEMPLATE

\* ---------------------------------------------------------------------- C6
\* C6: a question file that existed when the run started still exists with
\* the content it had.
C6_ExistingFilesKept ==
  \A c \in Chapters : \A n \in DOMAIN before[c].files :
    /\ n \in DOMAIN disk[c].files
    /\ disk[c].files[n] = before[c].files[n]

\* A chapter has been processed in which two references named a file that
\* existed, and at least one of them was rewritten.
C6_Witness ==
  /\ Returned
  /\ fixed_count >= 1
  /\ \E n \in DOMAIN before[chapter_num].files :
       /\ before[chapter_num].files[n] = AuthoredQuestion
       /\ Cardinality({k \in 1..Len(OrigRefs(chapter_num)) :
                         LastSegment(OrigRefs(chapter_num)[k]) = n}) >= 2

\* ---------------------------------------------------------------------- C7
\* C7: the pair fix_concept_map returns is the number of references that were
\* not canonical and the number of question files created; at the head of the
\* driver's loop, and at the summary, the totals are the sums of these pairs
\* over the chapter directories visited so far.
C7_CountsAndTotals ==
  /\ Returned =>
       /\ fixed_count = NonCanonical(chapter_num)
       /\ missing_count = Cardinality(NewFiles(chapter_num))
  /\ (pc = "main" /\ status \in {"running", "done"}) =>
       LET visited == {c \in Chapters : c < chapter_num /\ disk[c].dir}
       IN  /\ total_fixed = SumOver([c \in Chapters |-> NonCanonical(c)], visited)
           /\ total_stubs = SumOver([c \in Chapters |-> Cardinality(NewFiles(c))], visited)

\* The summary of a run in which two chapters each had a reference rewritten
\* and a stub was created.
C7_Witness ==
  /\ status = "done"
  /\ total_stubs >= 1
  /\ Cardinality({c \in Chapters : disk[c].dir /\ NonCanonical(c) >= 1}) = 2

\* ---------------------------------------------------------------------- C8
\* C8: a loop iteration writes the stub and counts it exactly when the target
\* of its reference does not exist as the iteration starts, whatever the
\* reference looked like.
C8_StubIffTargetMissing ==
  [][ idx' = idx + 1 =>
        LET c == chapter_num
            name == LastSegment(RefAt(data, Positions(data)[idx]))
        IN  IF TargetExists(c, name)
              THEN disk' = disk /\ missing_count' = missing_count
              ELSE /\ disk' = [disk EXCEPT ![c].files =
                                 WriteFile(disk[c].files, name, STUB_TEMPLATE)]
                   /\ disk' # disk
                   /\ missing_count' = missing_count + 1 ]_vars

\* Two references have been processed: the first was rewritten and its target
\* existed, the second was canonical and its target was missing.
C8_Witness ==
  /\ status = "running" /\ pc = "refs" /\ idx = 3
  /\ fixed_count = 1 /\ missing_count = 1
  /\ ~IsCanonical(OrigRefs(chapter_num)[1])
  /\ IsCanonical(OrigRefs(chapter_num)[2])
  /\ LastSegment(OrigRefs(chapter_num)[1]) \in DOMAIN before[chapter_num].files
  /\ LastSegment(OrigRefs(chapter_num)[2]) \in NewFiles(chapter_num)

\* ---------------------------------------------------------------------- C9
\* C9: at every point of the reference loop the stubs created so far are one
\* per distinct basename, among the references already processed, whose file
\* was missing when the loop started; references that repeat a basename add
\* nothing.
C9_OneStubPerBasename ==
  (status = "running" /\ pc \in {"refs", "returned"}) =>
    LET c == chapter_num
        o == OrigRefs(c)
        done == {LastSegment(o[k]) : k \in 1..(idx - 1)}
        missing == {n \in done : Len(n) > 0 /\ n \notin DOMAIN before[c].files}
    IN  /\ missing_count = Cardinality(missing)
        /\ NewFiles(c) = missing
        /\ \A n \in missing : disk[c].files[n] = STUB_TEMPLATE

\* A chapter has been processed in which two references in different
\* concepts shared a missing basename, and one stub was created.
C9_Witness ==
  /\ Returned
  /\ missing_count = 1
  /\ \E j, k \in 1..Len(OrigRefs(chapter_num)) :
       /\ j < k
       /\ Positions(data)[j][2] # Positions(data)[k][2]
          \/ Positions(data)[j][1] # Positions(data)[k][1]
       /\ LastSegment(OrigRefs(chapter_num)[j]) = LastSegment(OrigRefs(chapter_num)[k])
       /\ LastSegment(OrigRefs(chapter_num)[j]) \in NewFiles(chapter_num)

\* --------------------------------------------------------------------- C10
\* Every reference of a concept map that a dump has written has an existing
\* target.
DumpedMapsResolve ==
  \A c \in Chapters :
    (disk[c].map.kind = "yaml" /\ disk[c].map.text = "dumped") =>
      LET n == RefsOf(disk[c].map.listing)
      IN  \A k \in 1..Len(n) : TargetExists(c, LastSegment(n[k]))

\* A step writes only under the chapter being processed, and only while that
\* chapter's concept map is still the one the run found.
WritesInOrder ==
  \A c \in Chapters :
    disk'[c] # disk[c] => (c = chapter_num /\ disk[c].map = before[c].map)

\* C10: in every state, failures included, a rewritten concept map has all
\* its targets; every write goes to the chapter being processed, and the
\* rewrite of its concept map is the last of them.
C10_StubsBeforeRewrite == []DumpedMapsResolve /\ [][WritesInOrder]_vars

\* The dump failed after stubs were written and references rewritten in
\* memory: the stubs are there, the concept map is the one the run found.
C10_Witness ==
  /\ status = "io_error"
  /\ fixed_count > 0 /\ missing_count > 0
  /\ disk[chapter_num].map = before[chapter_num].map
  /\ NewFiles(chapter_num) # {}

====
